---- MODULE Spec2Model ----
(***************************************************************************)
(* Model of the Figma MCP server's POST /context handler (src/src/server.ts):*)
(* request validation, the design-graph fetch, image-URL resolution, the   *)
(* recursive buildHierarchy walk with its overlay ("dimmer") classification *)
(* and the per-node vision annotation calls.                               *)
(*                                                                         *)
(* Conventions.  A JavaScript object is a record; an optional property is  *)
(* a field that is or is not in the record's DOMAIN.  A string the code    *)
(* inspects character by character (a node name) is a sequence of          *)
(* one-character strings.  Opacity is kept in hundredths (0.6 is 60).      *)
(* A string built by concatenation is a sequence of its pieces.            *)
(***************************************************************************)
EXTENDS Integers, Sequences, FiniteSets, TLC

VARIABLES
    pc,          \* position of the /context handler
    request,     \* what the handler was called with (url shape, env key)
    doc,         \* the node tree of the Figma response, once fetched
    imageUrls,   \* the map returned by fetchImageUrls
    stack,       \* the activation records of buildHierarchy, innermost last
    hierarchy,   \* <<>> or <<the simplified tree returned by the top call>>
    responses,   \* the HTTP responses sent for the request, in order
    calls,       \* the external calls issued and settled, in order
    clsIn,       \* classifier probe: the (node, frameWidth) pair under test
    clsOut,      \* classifier probe: <<>> or <<the value returned>>
    tool,        \* the get_figma_data tool call: position, arguments, result
    transports,  \* FigmaMcpServer.transports: session id -> transport
    httpServer,  \* FigmaMcpServer.httpServer: <<>> (null) or <<server>>
    sessions,    \* the session ids handed out so far, and which are still open
    stops,       \* the stopHttpServer calls that have not settled
    events       \* what the HTTP side did, in order

\* The state outside the /context handler and the classifier probe.
serverVars == <<tool, transports, httpServer, sessions, stops, events>>

\* The state of the /context handler and of the classifier probe.
contextVars == <<pc, request, doc, imageUrls, stack, hierarchy, responses, calls, clsIn, clsOut>>

vars == <<contextVars, serverVars>>

---------------------------------------------------------------------------
\* Strings as character sequences.

UpperCase == <<"A","B","C","D","E","F","G","H","I","J","K","L","M",
               "N","O","P","Q","R","S","T","U","V","W","X","Y","Z">>

LowerCase == <<"a","b","c","d","e","f","g","h","i","j","k","l","m",
               "n","o","p","q","r","s","t","u","v","w","x","y","z">>

\* String.prototype.toLowerCase on one character.
LowerChar(c) ==
    IF \E k \in 1..26 : UpperCase[k] = c
    THEN LowerCase[CHOOSE k \in 1..26 : UpperCase[k] = c]
    ELSE c

\* A comparison that keeps the letter case.
toLowerCase_asIs(s) == s

toLowerCase(s) == [k \in 1..Len(s) |-> LowerChar(s[k])]

\* String.prototype.includes: sub occurs in s as a contiguous run.
includes(s, sub) ==
    \E k \in 0..(Len(s) - Len(sub)) :
        \A j \in 1..Len(sub) : s[k + j] = sub[j]

DimmText == <<"d","i","m","m">>

---------------------------------------------------------------------------
\* determineIfBackground (server.ts 353-389).

MinOverlayHeight == 100

MaxOverlayOpacity == 60

\* frameWidth is <<>> (undefined) or <<w>>.  !frameWidth is true for
\* undefined and for 0.
FrameWidthFalsy(frameWidth) == frameWidth = <<>> \/ frameWidth[1] = 0

OpacityOf(node) == IF "opacity" \in DOMAIN node THEN node.opacity ELSE 100

NameOf(node) == IF "name" \in DOMAIN node THEN node.name ELSE <<>>

\* The height test with > in place of >=.
determineIfBackground_strictHeight(node, frameWidth) ==
    /\ "absoluteBoundingBox" \in DOMAIN node
    /\ ~FrameWidthFalsy(frameWidth)
    /\ node.absoluteBoundingBox.width >= frameWidth[1]
    /\ node.absoluteBoundingBox.height > MinOverlayHeight
    /\ \/ OpacityOf(node) <= MaxOverlayOpacity
       \/ includes(toLowerCase(NameOf(node)), DimmText)

determineIfBackground(node, frameWidth) ==
    IF "absoluteBoundingBox" \notin DOMAIN node \/ FrameWidthFalsy(frameWidth)
    THEN FALSE
    ELSE LET width == node.absoluteBoundingBox.width
             height == node.absoluteBoundingBox.height
             opacity == OpacityOf(node)
             name == toLowerCase(NameOf(node))
             isWidthSufficient == width >= frameWidth[1]
             isHeightSufficient == height >= MinOverlayHeight
         IN  IF ~isWidthSufficient \/ ~isHeightSufficient
             THEN FALSE
             ELSE LET isOpacityLow == opacity <= MaxOverlayOpacity
                      hasDimmInName == includes(name, DimmText)
                  IN  isOpacityLow \/ hasDimmInName

---------------------------------------------------------------------------
\* The node tree of a Figma response.  A document d has nodes 1..d.n; node 1
\* is the requested node, d.parent[k] < k is the parent of node k > 1, and a
\* node's children array lists its children by ascending id.  d.node[k] is
\* the JSON object of node k without its children array.

MaxNodes == 4

MaxImages == 2

KindFrame ==
    [type |-> "FRAME", name |-> <<"F","r","a","m","e">>,
     absoluteBoundingBox |-> [width |-> 400, height |-> 800]]

KindText ==
    [type |-> "TEXT", name |-> <<"H","e","l","l","o">>,
     absoluteBoundingBox |-> [width |-> 100, height |-> 20]]

KindBox ==
    [type |-> "RECTANGLE", name |-> <<"B","o","x">>,
     absoluteBoundingBox |-> [width |-> 400, height |-> 200], opacity |-> 30]

Kinds == {KindFrame, KindText, KindBox}

\* Object spread { ...r, ...s }.
Merge(r, s) ==
    [k \in DOMAIN r \cup DOMAIN s |-> IF k \in DOMAIN s THEN s[k] ELSE r[k]]

\* The JSON objects a node of the response may be: a kind, or the box with
\* visible: false.
NodeObjects(k) ==
    { Merge(kind, [id |-> k]) : kind \in Kinds }
    \cup { Merge(KindBox, [id |-> k, visible |-> FALSE]) }

ParentMaps(n) ==
    { p \in [1..n -> 0..n] : p[1] = 0 /\ \A k \in 2..n : p[k] \in 1..(k - 1) }

Docs ==
    UNION { { [n |-> n, parent |-> p, node |-> nd] :
                p \in ParentMaps(n),
                nd \in { f \in [1..n -> UNION { NodeObjects(k) : k \in 1..n }] :
                           \A k \in 1..n : f[k].id = k } } :
            n \in 1..MaxNodes }

\* node.children of node id, in declaration order.
Children(d, id) ==
    SelectSeq([k \in 1..d.n |-> k], LAMBDA k : d.parent[k] = id)

\* The maps fetchImageUrls may resolve to for document d: at most MaxImages
\* entries, each a URL or null (<<>>, a render the image service gave up on).
ImageUrl(k) == <<"https://img/", k>>

ImageMaps(d) ==
    UNION { [ks -> {0, 1}] : ks \in { s \in SUBSET (1..d.n) : Cardinality(s) <= MaxImages } }

UrlOf(m, k) == IF m[k] = 1 THEN ImageUrl(k) ELSE <<>>

\* A test for the entry alone, which a null entry passes.
HasImageUrl_anyEntry(urls, k) == k \in DOMAIN urls

\* imageUrls[node.id] is truthy.
HasImageUrl(urls, k) == k \in DOMAIN urls /\ UrlOf(urls, k) # <<>>

---------------------------------------------------------------------------
\* Helpers of the walk.

\* isVisible of utils/common: a node is hidden exactly when it carries
\* visible: false.
isVisible(node) == ~("visible" \in DOMAIN node /\ node.visible = FALSE)

\* findParentFrame (server.ts 337-350): <<>> is null.  Nodes parsed from the
\* response JSON carry no parent property.
RECURSIVE findParentFrame(_)
findParentFrame(node) ==
    IF node.type = "FRAME" THEN <<node>>
    ELSE IF "parent" \notin DOMAIN node THEN <<>>
    ELSE findParentFrame(node.parent)

\* server.ts 207-216: the frame width a call of buildHierarchy works with.
ResolveFrameWidth(node, frameWidth) ==
    IF frameWidth = <<>>
    THEN LET frame == findParentFrame(node)
         IN  IF frame # <<>> /\ "absoluteBoundingBox" \in DOMAIN frame[1]
             THEN <<frame[1].absoluteBoundingBox.width>>
             ELSE frameWidth
    ELSE frameWidth

---------------------------------------------------------------------------
\* buildHierarchy (server.ts 198-294).  The async recursion is kept as a
\* stack of activation records, one per call that has not returned:
\*   node                 id of the call's node
\*   frameWidth           its frameWidth after lines 207-216
\*   dimmerFound          its dimmerFound argument
\*   isCurrentNodeDimmer  line 219
\*   i                    position of the loop of line 227 (1-based)
\*   children             results pushed so far (line 246)
\*   hasDimmerInChildren  line 223
\*   simplified           present while the call awaits its vision request

\* Lines 198-223: a call's activation record as it reaches the loop.
Enter(d, id, frameWidth, dimmerFound) ==
    LET fw == ResolveFrameWidth(d.node[id], frameWidth)
    IN  [node |-> id,
         frameWidth |-> fw,
         dimmerFound |-> dimmerFound,
         isCurrentNodeDimmer |-> determineIfBackground(d.node[id], fw),
         i |-> 1,
         children |-> <<>>,
         hasDimmerInChildren |-> FALSE]

\* Line 229: the child is skipped.
SkipChild(child) == ~isVisible(child)

\* The argument of the earlier, top-down revision of the walk (kept in
\* services/openai.ts, line 306), which lets an overlay dim its own children.
ChildDimmerFound_topDown(f) ==
    f.isCurrentNodeDimmer \/ f.dimmerFound \/ f.hasDimmerInChildren

\* Line 238: the dimmerFound argument of the recursive call.
ChildDimmerFound(f) == f.dimmerFound \/ f.hasDimmerInChildren

\* The result is kept without looking at its state.
NoteChildResult_noFlag(f, childResult) ==
    [f EXCEPT !.children = Append(@, childResult), !.i = @ + 1]

\* The result is put in front of the earlier ones.
NoteChildResult_unshift(f, childResult) ==
    [f EXCEPT !.hasDimmerInChildren = @ \/ (childResult.isBackground = "dimmer"),
              !.children = <<childResult>> \o @,
              !.i = @ + 1]

\* Lines 241-246.
NoteChildResult(f, childResult) ==
    [f EXCEPT !.hasDimmerInChildren = @ \/ (childResult.isBackground = "dimmer"),
              !.children = Append(@, childResult),
              !.i = @ + 1]

\* The state without the look at the children's results.
BackgroundState_inheritedOnly(f) ==
    IF f.isCurrentNodeDimmer THEN "dimmer"
    ELSE IF f.dimmerFound THEN "dimmed"
    ELSE "visible"

\* Lines 250-266.
BackgroundState(f) ==
    IF f.isCurrentNodeDimmer THEN "dimmer"
    ELSE IF f.dimmerFound \/ f.hasDimmerInChildren THEN "dimmed"
    ELSE "visible"

NoName == <<"(", "n", "o", " ", "n", "a", "m", "e", ")">>

\* Lines 268-278.  The pass-through bags (characters, position, fills,
\* strokes, style, effects) are copied from the node and read by nothing
\* else; they are left out.  id is not a field of the code's object: it names
\* the input node the object was built for.
Simplified(node, f) ==
    [id |-> node.id,
     name |-> IF NameOf(node) # <<>> THEN node.name ELSE NoName,
     type |-> node.type,
     isBackground |-> BackgroundState(f)]

\* Lines 289-291.
AttachChildren(simplified, children) ==
    IF Len(children) > 0
    THEN Merge(simplified, [children |-> children])
    ELSE simplified

\* Runs the innermost call, and its callers as it returns, up to the next
\* await of a vision request or to the return of the top-level call.
RECURSIVE Run(_, _, _)
RECURSIVE Return(_, _, _, _)
\* The image test ahead of the loop over the children: the node's own request
\* goes out before its subtree is walked.
Run_imageFirst(d, urls, stk) ==
    LET top == Len(stk)
        f == stk[top]
        kids == Children(d, f.node)
        simplified == Simplified(d.node[f.node], f)
    IN  IF HasImageUrl(urls, f.node)
        THEN [stack |->
                [stk EXCEPT ![top] =
                   Merge(f, [simplified |->
                               Merge(simplified, [image_url |-> UrlOf(urls, f.node)])])],
              hierarchy |-> <<>>]
        ELSE IF f.i <= Len(kids)
        THEN IF SkipChild(d.node[kids[f.i]])
             THEN Run(d, urls, [stk EXCEPT ![top].i = @ + 1])
             ELSE Run(d, urls,
                      Append(stk, Enter(d, kids[f.i], f.frameWidth, ChildDimmerFound(f))))
        ELSE Return(d, urls, stk, AttachChildren(simplified, f.children))

Run(d, urls, stk) ==
    LET top == Len(stk)
        f == stk[top]
        kids == Children(d, f.node)
    IN  IF f.i <= Len(kids)
        THEN IF SkipChild(d.node[kids[f.i]])
             THEN Run(d, urls, [stk EXCEPT ![top].i = @ + 1])
             ELSE Run(d, urls,
                      Append(stk, Enter(d, kids[f.i], f.frameWidth, ChildDimmerFound(f))))
        ELSE LET simplified == Simplified(d.node[f.node], f)
             IN  IF HasImageUrl(urls, f.node)
                 THEN [stack |->
                         [stk EXCEPT ![top] =
                            Merge(f, [simplified |->
                                        Merge(simplified, [image_url |-> UrlOf(urls, f.node)])])],
                       hierarchy |-> <<>>]
                 ELSE Return(d, urls, stk, AttachChildren(simplified, f.children))

\* Line 293, and the caller's lines 241-246.
Return(d, urls, stk, result) ==
    IF Len(stk) = 1
    THEN [stack |-> <<>>, hierarchy |-> <<result>>]
    ELSE LET rest == SubSeq(stk, 1, Len(stk) - 1)
         IN  Run(d, urls, [rest EXCEPT ![Len(rest)] = NoteChildResult(@, result)])

---------------------------------------------------------------------------
\* analyzeImageWithOpenAIVision (openai.ts 1-37).  What the vision service
\* does with a request: the fetch rejects, the status is not 2xx, the body is
\* not JSON, the body is JSON without choices[0].message.content, or the body
\* carries a description.
VisionReplies == {"networkError", "notOk", "badJson", "noChoices", "ok"}

\* [threw, value]: the Error's message when it throws, the string it
\* returns when it does not.
analyzeImageWithOpenAIVision(reply) ==
    CASE reply = "networkError" -> [threw |-> TRUE, value |-> <<"fetch failed">>]
      [] reply = "notOk" ->
            [threw |-> TRUE, value |-> <<"OpenAI Vision API call failed: ", "errorText">>]
      [] reply = "badJson" -> [threw |-> TRUE, value |-> <<"Unexpected token">>]
      [] reply = "noChoices" -> [threw |-> FALSE, value |-> <<>>]
      [] OTHER -> [threw |-> FALSE, value |-> <<"description">>]

\* The literal of server.ts 285 ("image analysis failed: " in Korean).
FailureMarker == "image analysis failed: "

\* The marker alone, without the error's message.
VisionText_markerOnly(result) ==
    IF result.threw THEN <<FailureMarker>> ELSE result.value

\* Lines 283-285.
VisionText(result) ==
    IF result.threw THEN <<FailureMarker>> \o result.value ELSE result.value

---------------------------------------------------------------------------
\* The POST /context handler (server.ts 104-315).

\* What figma_url may be: not in the body at all, a URL without
\* /file/<key> or /design/<key>, one without node-id=, or one with both.
UrlShapes == {"missing", "noFileKey", "noNodeId", "valid"}

\* What the HTTPS request to api.figma.com may come to: the request errors,
\* the body is not JSON, the body is JSON without nodes[nodeId].document,
\* or the body carries the node's document.
FigmaFailures == {"requestError", "unparsable", "noNode"}

ErrorResponse(status, error) == [status |-> status, body |-> [error |-> error]]

\* Lines 298-310; of the body only the hierarchy is kept.
TreeResponse(h) == [status |-> 200, body |-> [hierarchy |-> h]]

Issue(op, k) == [ev |-> "issue", op |-> op, node |-> k, how |-> "-"]

Settle(op, k, how) == [ev |-> "settle", op |-> op, node |-> k, how |-> how]

\* Lines 311-314.
CatchAll ==
    /\ pc' = "done"
    /\ responses' = Append(responses, ErrorResponse(500, "Internal server error"))

\* The node fetch issued without the test of the OpenAI key.
Request_fetchFirst(url, keySet) ==
    /\ pc = "idle"
    /\ request' = [url |-> url, keySet |-> keySet]
    /\ IF url = "missing"
       THEN /\ pc' = "done"
            /\ responses' = Append(responses, ErrorResponse(500, "Internal server error"))
            /\ UNCHANGED calls
       ELSE IF url \in {"noFileKey", "noNodeId"}
       THEN /\ pc' = "done"
            /\ responses' = Append(responses, ErrorResponse(400, "Invalid Figma URL"))
            /\ UNCHANGED calls
       ELSE /\ pc' = "fetching"
            /\ calls' = Append(calls, Issue("getNode", 0))
            /\ UNCHANGED responses
    /\ UNCHANGED <<doc, imageUrls, stack, hierarchy, clsIn, clsOut, serverVars>>

\* Lines 104-148: the request arrives and is validated; the node fetch is
\* issued.  extractFileKey calls figma_url.match, which throws on undefined.
Request(url, keySet) ==
    /\ pc = "idle"
    /\ request' = [url |-> url, keySet |-> keySet]
    /\ IF url = "missing"
       THEN CatchAll /\ UNCHANGED calls
       ELSE IF url \in {"noFileKey", "noNodeId"}
       THEN /\ pc' = "done"
            /\ responses' = Append(responses, ErrorResponse(400, "Invalid Figma URL"))
            /\ UNCHANGED calls
       ELSE IF ~keySet
       THEN /\ pc' = "done"
            /\ responses' = Append(responses,
                   ErrorResponse(500, "OpenAI API key is not set in environment variables."))
            /\ UNCHANGED calls
       ELSE /\ pc' = "fetching"
            /\ calls' = Append(calls, Issue("getNode", 0))
            /\ UNCHANGED responses
    /\ UNCHANGED <<doc, imageUrls, stack, hierarchy, clsIn, clsOut, serverVars>>

\* Lines 140-153 when the fetch yields no document.  JSON.parse runs in the
\* response's 'end' listener (line 144), outside the promise executor and the
\* handler's try: when it throws nothing settles the promise, the exception
\* is uncaught and the process ends without a response.
FetchFails(how) ==
    /\ pc = "fetching"
    /\ calls' = Append(calls, Settle("getNode", 0, how))
    /\ IF how = "requestError"
       THEN CatchAll
       ELSE IF how = "unparsable"
       THEN pc' = "crashed" /\ UNCHANGED responses
       ELSE /\ pc' = "done"
            /\ responses' = Append(responses,
                                   ErrorResponse(404, "Node not found in Figma response"))
    /\ UNCHANGED <<request, doc, imageUrls, stack, hierarchy, clsIn, clsOut, serverVars>>

\* Lines 140-156 when the response carries the node: image URLs are asked for.
FetchSucceeds(d) ==
    /\ pc = "fetching"
    /\ doc' = <<d>>
    /\ pc' = "resolvingImages"
    /\ calls' = Append(Append(calls, Settle("getNode", 0, "ok")), Issue("images", 0))
    /\ UNCHANGED <<request, imageUrls, stack, hierarchy, responses, clsIn, clsOut, serverVars>>

\* Line 156 when fetchImageUrls rejects.
ImagesFail ==
    /\ pc = "resolvingImages"
    /\ calls' = Append(calls, Settle("images", 0, "rejected"))
    /\ CatchAll
    /\ UNCHANGED <<request, doc, imageUrls, stack, hierarchy, clsIn, clsOut, serverVars>>

\* Where the walk stands after Run: awaiting a vision request (now issued),
\* or returned, and then the response is sent (lines 296-310).
Proceed(w, log) ==
    /\ stack' = w.stack
    /\ hierarchy' = w.hierarchy
    /\ IF w.stack # <<>>
       THEN /\ pc' = "walking"
            /\ calls' = Append(log, Issue("vision", w.stack[Len(w.stack)].node))
            /\ UNCHANGED responses
       ELSE /\ pc' = "done"
            /\ calls' = log
            /\ responses' = Append(responses, TreeResponse(w.hierarchy[1]))

\* Lines 156-296: the image URLs arrive and the top-level buildHierarchy
\* call starts, with frameWidth undefined and dimmerFound false.
ImagesSucceed(urls) ==
    /\ pc = "resolvingImages"
    /\ imageUrls' = urls
    /\ Proceed(Run(doc[1], urls, <<Enter(doc[1], 1, <<>>, FALSE)>>),
               Append(calls, Settle("images", 0, "ok")))
    /\ UNCHANGED <<request, doc, clsIn, clsOut, serverVars>>

\* Lines 283-293: the awaited vision request settles; the call sets
\* vision_text, attaches its children and returns.
VisionSettles(reply) ==
    /\ pc = "walking"
    /\ LET f == stack[Len(stack)]
           simplified == Merge(f.simplified,
                               [vision_text |-> VisionText(analyzeImageWithOpenAIVision(reply))])
       IN  Proceed(Return(doc[1], imageUrls, stack, AttachChildren(simplified, f.children)),
                   Append(calls, Settle("vision", f.node, reply)))
    /\ UNCHANGED <<request, doc, imageUrls, clsIn, clsOut, serverVars>>

NoProbe == [node |-> [type |-> "NONE"], frameWidth |-> <<>>]

\* The server as constructed (server.ts 23-24), no tool call made.
InitServer ==
    /\ tool = [pc |-> "idle"]
    /\ transports = <<>>
    /\ httpServer = <<>>
    /\ sessions = [next |-> 1, open |-> {}]
    /\ stops = <<>>
    /\ events = <<>>

Init ==
    /\ InitServer
    /\ pc = "idle"
    /\ request = [url |-> "none", keySet |-> FALSE]
    /\ doc = <<>>
    /\ imageUrls = <<>>
    /\ stack = <<>>
    /\ hierarchy = <<>>
    /\ responses = <<>>
    /\ calls = <<>>
    /\ clsIn = NoProbe
    /\ clsOut = <<>>

Next ==
    \/ \E url \in UrlShapes, keySet \in BOOLEAN : Request(url, keySet)
    \/ \E how \in FigmaFailures : FetchFails(how)
    \/ pc = "fetching" /\ \E d \in Docs : FetchSucceeds(d)
    \/ ImagesFail
    \/ pc = "resolvingImages" /\ \E urls \in ImageMaps(doc[1]) : ImagesSucceed(urls)
    \/ \E reply \in VisionReplies : VisionSettles(reply)

Spec == Init /\ [][Next]_vars

---------------------------------------------------------------------------
\* The classifier on its own: determineIfBackground applied to one node and
\* one frame width.

Overlay_Background ==
    <<"O","v","e","r","l","a","y"," ","B","a","c","k","g","r","o","u","n","d">>

Dimm_Background ==
    <<"D","i","m","m"," ","B","a","c","k","g","r","o","u","n","d">>

\* Names, each with whether "dimm" occurs in it in any letter case (found by
\* reading the name, not by the code's test).
ProbeNames ==
    { [text |-> Overlay_Background, dimm |-> FALSE],
      [text |-> Dimm_Background, dimm |-> TRUE],
      [text |-> <<"b","g","-","D","I","M","M","E","D">>, dimm |-> TRUE],
      [text |-> <<"x","d","i","M","m">>, dimm |-> TRUE],
      [text |-> <<"d","i","m"," ","m">>, dimm |-> FALSE],
      [text |-> <<"d","i","m">>, dimm |-> FALSE],
      [text |-> <<>>, dimm |-> FALSE] }

ProbeWidths == {0, 399, 400, 401}

ProbeHeights == {99, 100, 101}

ProbeOpacities == {0, 30, 60, 61, 100}

ProbeFrameWidths == {<<>>, <<0>>, <<400>>}

\* Nodes with and without a bounding box, an opacity and a name.
ProbeNodes ==
    LET boxes == {[type |-> "RECTANGLE"]}
                 \cup { [type |-> "RECTANGLE",
                         absoluteBoundingBox |-> [width |-> w, height |-> h]] :
                        w \in ProbeWidths, h \in ProbeHeights }
        withOpacity == boxes \cup { Merge(b, [opacity |-> o]) : b \in boxes, o \in ProbeOpacities }
    IN  { [node |-> n, dimm |-> FALSE] : n \in withOpacity }
        \cup { [node |-> Merge(n, [name |-> nm.text]), dimm |-> nm.dimm] :
               n \in withOpacity, nm \in ProbeNames }

Probes ==
    { [node |-> pn.node, dimm |-> pn.dimm, frameWidth |-> fw] :
      pn \in ProbeNodes, fw \in ProbeFrameWidths }

InitClassify ==
    /\ InitServer
    /\ pc = "idle"
    /\ request = [url |-> "none", keySet |-> FALSE]
    /\ doc = <<>>
    /\ imageUrls = <<>>
    /\ stack = <<>>
    /\ hierarchy = <<>>
    /\ responses = <<>>
    /\ calls = <<>>
    /\ clsIn \in Probes
    /\ clsOut = <<>>

Classify ==
    /\ clsOut = <<>>
    /\ clsOut' = <<determineIfBackground(clsIn.node, clsIn.frameWidth)>>
    /\ UNCHANGED <<pc, request, doc, imageUrls, stack, hierarchy, responses, calls, clsIn, serverVars>>

NextClassify == Classify

SpecClassify == InitClassify /\ [][NextClassify]_vars

---------------------------------------------------------------------------
\* Reading the input document and the returned hierarchy.

D == doc[1]

RECURSIVE Ancestors(_, _)
Ancestors(d, k) ==
    IF k = 1 THEN {} ELSE {d.parent[k]} \cup Ancestors(d, d.parent[k])

\* The node or one of its ancestors carries visible: false.
InHiddenSubtree(d, k) ==
    \E a \in Ancestors(d, k) \cup {k} : ~isVisible(d.node[a])

\* The node, or an ancestor of it other than the node the traversal is started
\* on, carries visible: false.
HiddenBelowTop(d, k) ==
    \E a \in (Ancestors(d, k) \cup {k}) \ {1} : ~isVisible(d.node[a])

\* Every simplified node of a simplified tree, at any depth.
RECURSIVE EmittedOf(_)
EmittedOf(s) ==
    {s} \cup (IF "children" \in DOMAIN s
              THEN UNION { EmittedOf(s.children[j]) : j \in 1..Len(s.children) }
              ELSE {})

Emitted == EmittedOf(hierarchy[1])

EmittedIds == { s.id : s \in Emitted }

StateOf(k) == (CHOOSE s \in Emitted : s.id = k).isBackground

\* The frame width the call for node k is given by the code: the width its
\* parent's call works with, resolved again while it is undefined.
RECURSIVE WidthInEffect(_, _)
WidthInEffect(d, k) ==
    ResolveFrameWidth(d.node[k],
                      IF k = 1 THEN <<>> ELSE WidthInEffect(d, d.parent[k]))

Classified(d, k) == determineIfBackground(d.node[k], WidthInEffect(d, k))

\* An emitted overlay is declared before k, or before an ancestor of k,
\* among the children of one parent.
OverlayDeclaredBefore(d, k) ==
    \E a \in Ancestors(d, k) \cup {k} :
        \E b \in EmittedIds :
            /\ a # 1 /\ b # 1
            /\ d.parent[b] = d.parent[a]
            /\ b < a
            /\ StateOf(b) = "dimmer"

\* One of k's own emitted children is an overlay.
OverlayAmongChildren(d, k) ==
    \E c \in EmittedIds : c # 1 /\ d.parent[c] = k /\ StateOf(c) = "dimmer"

\* The image service resolved a URL for node k: the map has an entry for it
\* that is not null.
ResolvedUrl(k) == k \in DOMAIN imageUrls /\ imageUrls[k] = 1

VisionIssues(k) == { j \in 1..Len(calls) : calls[j] = Issue("vision", k) }

\* How the vision request of node k settled.
VisionReplyOf(k) ==
    LET j == CHOOSE j \in 1..Len(calls) :
                 calls[j].ev = "settle" /\ calls[j].op = "vision" /\ calls[j].node = k
    IN  calls[j].how

---------------------------------------------------------------------------
\* C1.  No node that isVisible marks invisible, and no descendant of such a
\* node, appears in the hierarchy returned by buildHierarchy; the node the
\* traversal is started on included.
NoInvisibleNodeEmitted ==
    hierarchy # <<>> =>
        \A k \in 1..D.n : InHiddenSubtree(D, k) => k \notin EmittedIds

\* What the code does keep: a node below an invisible node other than the
\* one the traversal is started on is never emitted.
InvisibleBelowRootNotEmitted ==
    hierarchy # <<>> =>
        \A k \in 1..D.n : HiddenBelowTop(D, k) <=> k \notin EmittedIds

BoundaryProbe(name) ==
    /\ clsIn.frameWidth = <<400>>
    /\ "absoluteBoundingBox" \in DOMAIN clsIn.node
    /\ clsIn.node.absoluteBoundingBox = [width |-> 400, height |-> 100]
    /\ "opacity" \in DOMAIN clsIn.node /\ clsIn.node.opacity = 100
    /\ "name" \in DOMAIN clsIn.node /\ clsIn.node.name = name

\* C3 as stated.  The boundary node named "Overlay Background" is classified
\* overlay by its name.
OverlayBackgroundIsOverlay ==
    (clsOut # <<>> /\ BoundaryProbe(Overlay_Background)) => clsOut[1]

\* C3 as amended.  The boundary node is classified overlay by its name exactly
\* when the name contains "dimm" in some letter case: "Dimm Background" is,
\* "Overlay Background" is not.
BoundaryNodeIsOverlayByDimmName ==
    /\ \A nm \in ProbeNames :
           (clsOut # <<>> /\ BoundaryProbe(nm.text)) => (clsOut[1] <=> nm.dimm)
    /\ (clsOut # <<>> /\ BoundaryProbe(Overlay_Background)) => ~clsOut[1]
    /\ (clsOut # <<>> /\ BoundaryProbe(Dimm_Background)) => clsOut[1]

\* The boundary node named "Dimm Background" has been classified overlay.
DimmBackgroundClassified ==
    clsOut = <<TRUE>> /\ BoundaryProbe(Dimm_Background)

---------------------------------------------------------------------------
\* C4.  No emitted descendant of an emitted overlay ('dimmer') node
\* has state 'visible': each is 'dimmed', or 'dimmer' by its own
\* classification.
OverlayDescendantsNeverVisible ==
    hierarchy # <<>> =>
        \A s \in EmittedIds, t \in EmittedIds :
            (StateOf(s) = "dimmer" /\ s \in Ancestors(D, t))
                => /\ StateOf(t) # "visible"
                   /\ StateOf(t) = "dimmer" => Classified(D, t)

\* What the code does instead: isCurrentNodeDimmer is not passed down (line
\* 238), so an overlay does not dim its own descendants.  An emitted descendant of an overlay that is not itself classified overlay is 'dimmed'
\* exactly when an overlay sibling is declared before it or before one of its
\* ancestors, or one of its own children is an overlay; otherwise it is
\* 'visible'.  It is 'dimmer' exactly when it is itself classified.
OverlayDescendantsDimmedOnlyByOrder ==
    hierarchy # <<>> =>
        \A s \in EmittedIds, t \in EmittedIds :
            (StateOf(s) = "dimmer" /\ s \in Ancestors(D, t))
                => /\ StateOf(t) = "dimmer" <=> Classified(D, t)
                   /\ StateOf(t) = "dimmed" <=>
                          /\ ~Classified(D, t)
                          /\ OverlayDeclaredBefore(D, t) \/ OverlayAmongChildren(D, t)
                   /\ StateOf(t) \in {"visible", "dimmer", "dimmed"}

\* An overlay has been emitted with a child and a grandchild that are both
\* left 'visible'.
OverlayWithVisibleDescendants ==
    /\ hierarchy # <<>>
    /\ \E s \in EmittedIds, t \in EmittedIds :
           /\ StateOf(s) = "dimmer"
           /\ D.parent[t] # s /\ D.parent[t] \in EmittedIds
           /\ s \in Ancestors(D, t)
           /\ StateOf(t) = "visible" /\ StateOf(D.parent[t]) = "visible"

\* The reference width of the traversal: the one resolved on the top-level
\* call.
TopWidth == ResolveFrameWidth(D.node[1], <<>>)

\* C5.  Every emitted node carries one of the three states, and it is
\* 'dimmer' exactly when the classification predicate holds for the node
\* alone with the traversal's reference width.
StateIsOwnClassification ==
    hierarchy # <<>> =>
        \A s \in Emitted :
            /\ s.isBackground \in {"visible", "dimmer", "dimmed"}
            /\ s.isBackground = "dimmer" <=> determineIfBackground(D.node[s.id], TopWidth)

\* What the code does keep: the same with the width its call works with, which
\* is resolved again below a top-level node that has no frame.
StateIsClassificationAtCallWidth ==
    hierarchy # <<>> =>
        \A s \in Emitted :
            /\ s.isBackground \in {"visible", "dimmer", "dimmed"}
            /\ s.isBackground = "dimmer" <=> Classified(D, s.id)

\* The document of the example of C6: a 400x800 frame with the children
\* A (text "Hello"), B (400x200 box, opacity 0.3) and C (an image node).
ExampleDoc ==
    [n |-> 4,
     parent |-> <<0, 1, 1, 1>>,
     node |-> <<Merge(KindFrame, [id |-> 1]), Merge(KindText, [id |-> 2]),
                Merge(KindBox, [id |-> 3]), Merge(KindText, [id |-> 4])>>]

\* C6.  Among the emitted children of one parent every child declared after
\* an overlay sibling, and every descendant of such a child, is 'dimmed'
\* unless it is itself classified overlay; a child declared before the first
\* overlay sibling is not made 'dimmed' by it; the example gives A visible,
\* B dimmer, C dimmed.
LaterSiblingsOfOverlayAreDimmed ==
    hierarchy # <<>> =>
        /\ \A a \in EmittedIds, b \in EmittedIds, t \in EmittedIds :
               (/\ a # 1 /\ b # 1
                /\ D.parent[a] = D.parent[b]
                /\ a < b
                /\ StateOf(a) = "dimmer"
                /\ t = b \/ b \in Ancestors(D, t))
                   => IF Classified(D, t) THEN StateOf(t) = "dimmer"
                                          ELSE StateOf(t) = "dimmed"
        /\ \A a \in EmittedIds, b \in EmittedIds :
               (/\ a # 1 /\ b # 1
                /\ D.parent[a] = D.parent[b]
                /\ a < b
                /\ StateOf(b) = "dimmer"
                /\ ~OverlayDeclaredBefore(D, a)
                /\ ~OverlayAmongChildren(D, a))
                   => StateOf(a) # "dimmed"
        /\ D = ExampleDoc =>
               StateOf(2) = "visible" /\ StateOf(3) = "dimmer" /\ StateOf(4) = "dimmed"

\* The example of C6 has been walked, C carrying an image URL.
ExampleWalked ==
    /\ hierarchy # <<>>
    /\ D = ExampleDoc
    /\ ResolvedUrl(4)
    /\ StateOf(4) = "dimmed"

\* The visible children of node k, in declaration order.
VisibleChildren(d, k) ==
    SelectSeq(Children(d, k), LAMBDA c : isVisible(d.node[c]))

\* C7.  The children field of a simplified node lists the simplified results
\* of the node's visible children in declaration order, and is absent when
\* the node has no visible child.
ChildrenAreVisibleChildrenInOrder ==
    hierarchy # <<>> =>
        \A s \in Emitted :
            IF VisibleChildren(D, s.id) = <<>>
            THEN "children" \notin DOMAIN s
            ELSE /\ "children" \in DOMAIN s
                 /\ [j \in 1..Len(s.children) |-> s.children[j].id] = VisibleChildren(D, s.id)

\* A node with two visible children around a hidden one has been emitted,
\* and so has a node without children.
HiddenChildBetweenVisibleOnes ==
    /\ hierarchy # <<>>
    /\ \E s \in Emitted :
           /\ "children" \in DOMAIN s
           /\ Len(s.children) = 2
           /\ Len(Children(D, s.id)) = 3
           /\ ~isVisible(D.node[Children(D, s.id)[2]])
    /\ \E s \in Emitted : "children" \notin DOMAIN s

\* The replies on which the annotation call fails: the fetch rejects
\* (network error), the status is not 2xx (non-success response), the body is
\* not JSON (malformed response).
VisionFailures == {"networkError", "notOk", "badJson"}

\* The message of the Error the call fails with, read off openai.ts 20-34.
FailureMessage(reply) ==
    CASE reply = "networkError" -> <<"fetch failed">>
      [] reply = "notOk" -> <<"OpenAI Vision API call failed: ", "errorText">>
      [] reply = "badJson" -> <<"Unexpected token">>

OneVisionRequestPerImageNode ==
    /\ \A j \in 1..Len(calls) :
           calls[j].op = "vision" =>
               /\ Cardinality(VisionIssues(calls[j].node)) = 1
               /\ ResolvedUrl(calls[j].node)
               /\ ~HiddenBelowTop(D, calls[j].node)
    /\ hierarchy # <<>> =>
           /\ \A k \in 1..D.n :
                  Cardinality(VisionIssues(k)) =
                      IF k \in EmittedIds /\ ResolvedUrl(k) THEN 1 ELSE 0
           /\ \A s \in Emitted :
                  /\ "vision_text" \in DOMAIN s <=> "image_url" \in DOMAIN s
                  /\ "image_url" \in DOMAIN s <=> ResolvedUrl(s.id)

\* A walk has ended in which one request failed, and a node with a null URL
\* entry was emitted without a request.
FailedRequestAndNullUrl ==
    /\ hierarchy # <<>>
    /\ \E k \in EmittedIds : Cardinality(VisionIssues(k)) = 1 /\ VisionReplyOf(k) = "notOk"
    /\ \E k \in EmittedIds : k \in DOMAIN imageUrls /\ imageUrls[k] = 0

\* The node fetch has failed fatally.
FetchFailed ==
    \E j \in 1..Len(calls) :
        calls[j].ev = "settle" /\ calls[j].op = "getNode" /\ calls[j].how \in FigmaFailures

\* C10.  After a fatal failure of the node fetch the caller has exactly one
\* response, an error without a hierarchy, and no tree was built.
FatalFetchGivesOneErrorResponse ==
    FetchFailed =>
        /\ Len(responses) = 1
        /\ responses[1].status >= 400
        /\ "hierarchy" \notin DOMAIN responses[1].body
        /\ hierarchy = <<>>

\* What the code does keep: no tree is built after a failed fetch, and at
\* most one response, an error, is sent.
FatalFetchBuildsNoTree ==
    FetchFailed =>
        /\ Len(responses) <= 1
        /\ \A j \in 1..Len(responses) :
               responses[j].status >= 400 /\ "hierarchy" \notin DOMAIN responses[j].body
        /\ hierarchy = <<>> /\ stack = <<>>

---------------------------------------------------------------------------
\* The handler with a vision service that may never answer.  The fetch of
\* openai.ts 20-27 is given no signal and no timer, and server.ts 283 awaits
\* it without a race: a request the service never answers leaves the handler
\* at that await.

MaxLiveNodes == 2

LiveDocs == { d \in Docs : d.n <= MaxLiveNodes }

\* The service never answers the request in flight; nothing in the handler
\* runs again.
VisionNeverReturns ==
    /\ pc = "walking"
    /\ pc' = "blocked"
    /\ UNCHANGED <<request, doc, imageUrls, stack, hierarchy, responses, calls, clsIn, clsOut, serverVars>>

NextLive ==
    \/ \E url \in UrlShapes, keySet \in BOOLEAN : Request(url, keySet)
    \/ \E how \in FigmaFailures : FetchFails(how)
    \/ pc = "fetching" /\ \E d \in LiveDocs : FetchSucceeds(d)
    \/ ImagesFail
    \/ pc = "resolvingImages" /\ \E urls \in ImageMaps(doc[1]) : ImagesSucceed(urls)
    \/ \E reply \in VisionReplies : VisionSettles(reply)
    \/ VisionNeverReturns

\* Every step that can be taken is eventually taken: requests arrive, and a
\* service that is going to answer does answer.
SpecLive == Init /\ [][NextLive]_vars /\ WF_vars(NextLive)

\* C11.  An invocation never blocks indefinitely on the annotation service:
\* once a vision request is in flight, answered or not, the invocation
\* eventually completes with a response.
AnnotationNeverBlocks ==
    (pc \in {"walking", "blocked"}) ~> (pc = "done" /\ Len(responses) = 1)

\* What the code does keep: while the service answers every request, the walk
\* completes with a response.
AnsweredWalkCompletes ==
    (pc = "walking") ~> (pc = "blocked" \/ (pc = "done" /\ Len(responses) = 1))

---------------------------------------------------------------------------
\* C12.  The reference width is resolved once, on the top-level call: every
\* call of the traversal works with the width of the top-level call, and when
\* no frame is found for the top-level node the width stays undefined and no
\* node is emitted as overlay ('dimmer').
SingleReferenceWidth ==
    /\ \A j \in 1..Len(stack) : stack[j].frameWidth = stack[1].frameWidth
    /\ hierarchy # <<>> =>
           /\ \A k \in EmittedIds : WidthInEffect(D, k) = TopWidth
           /\ TopWidth = <<>> => \A s \in Emitted : s.isBackground # "dimmer"

\* What the code does keep: once a width is defined for a call it is the
\* width of every call below it; when the top-level node is a FRAME, that is
\* the whole traversal.
WidthFixedOnceDefined ==
    /\ \A j \in 1..Len(stack), k \in 1..Len(stack) :
           (j < k /\ stack[j].frameWidth # <<>>) => stack[k].frameWidth = stack[j].frameWidth
    /\ hierarchy # <<>> =>
           (TopWidth # <<>> => \A k \in EmittedIds : WidthInEffect(D, k) = TopWidth)

---------------------------------------------------------------------------
\* The get_figma_data tool (server.ts 53-71).

\* nodeId is z.string().optional(): absent (<<>>), or a string, which may be
\* empty.  depth is absent or a number.
ToolNodeIds == {<<>>, <<"">>, <<"1:2">>}

ToolDepths == {<<>>, <<2>>}

\* The SimplifiedDesign values getNode and getFile may resolve to: name and
\* lastModified, an optional thumbnailUrl, nodes and globalVars.
ToolFiles ==
    LET base == { [name |-> nm, lastModified |-> "2025-01-01", nodes |-> ns, globalVars |-> gv] :
                    nm \in {"Design", "Other"},
                    ns \in {<<>>, <<[id |-> "1:2", name |-> "Frame"]>>,
                            <<[id |-> "1:2", name |-> "Frame"], [id |-> "1:3", name |-> "Box"]>>},
                    gv \in {[styles |-> <<>>], [styles |-> <<"fill_1">>]} }
    IN  base \cup { Merge(f, [thumbnailUrl |-> "https://thumb"]) : f \in base }

\* What a rejected fetch carries.
ToolErrors == {"Error: Failed to make request to Figma API", "Error: 404"}

\* if (nodeId): an absent and an empty nodeId are both falsy.
NodeIdTruthy(nodeId) == nodeId # <<>> /\ nodeId[1] # ""

\* Lines 56-60: the service call the tool makes.
ToolFetch(fileKey, nodeId, depth) ==
    IF NodeIdTruthy(nodeId)
    THEN [method |-> "getNode", args |-> <<fileKey, nodeId[1], depth>>]
    ELSE [method |-> "getFile", args |-> <<fileKey, depth>>]

\* A rest pattern that takes nothing out.
RestOf_keepAll(file, taken) == file

\* Line 61: { nodes, globalVars, ...metadata } = file.
RestOf(file, taken) == [k \in DOMAIN file \ taken |-> file[k]]

\* yaml.dump of an object: its own keys in property order, each with the
\* dump of its value.
Dump(keys, obj) == [j \in 1..Len(keys) |-> [key |-> keys[j], value |-> obj[keys[j]]]]

\* Lines 61-64.
ToolSuccess(file) ==
    LET metadata == RestOf(file, {"nodes", "globalVars"})
        result == [metadata |-> metadata, nodes |-> file.nodes, globalVars |-> file.globalVars]
    IN  [content |-> <<[type |-> "text",
                        text |-> Dump(<<"metadata", "nodes", "globalVars">>, result)]>>]

\* Lines 65-70.
ToolFailure(error) ==
    [isError |-> TRUE,
     content |-> <<[type |-> "text", text |-> <<"Error fetching file: ", error>>]>>]

\* Lines 53-60: the tool is called and awaits the service.
ToolCall(nodeId, depth) ==
    /\ tool.pc = "idle"
    /\ tool' = [pc |-> "fetching", nodeId |-> nodeId, depth |-> depth,
                fetches |-> <<ToolFetch("fileKey", nodeId, depth)>>]
    /\ UNCHANGED <<contextVars, transports, httpServer, sessions, stops, events>>

\* Lines 61-64: the service resolves.
ToolFetchResolves(file) ==
    /\ tool.pc = "fetching"
    /\ tool' = Merge(tool, [pc |-> "done", file |-> <<file>>, results |-> <<ToolSuccess(file)>>])
    /\ UNCHANGED <<contextVars, transports, httpServer, sessions, stops, events>>

\* Lines 65-70: the service rejects.
ToolFetchRejects(error) ==
    /\ tool.pc = "fetching"
    /\ tool' = Merge(tool, [pc |-> "done", file |-> <<>>, results |-> <<ToolFailure(error)>>])
    /\ UNCHANGED <<contextVars, transports, httpServer, sessions, stops, events>>

NextTool ==
    \/ \E nodeId \in ToolNodeIds, depth \in ToolDepths : ToolCall(nodeId, depth)
    \/ \E file \in ToolFiles : ToolFetchResolves(file)
    \/ \E error \in ToolErrors : ToolFetchRejects(error)

SpecTool == Init /\ [][NextTool]_vars

\* The top-level keys of a dumped document.
DumpedKeys(text) == { text[j].key : j \in 1..Len(text) }

DumpedValue(text, key) == text[CHOOSE j \in 1..Len(text) : text[j].key = key].value

\* What C13 says of a finished call, the fetch aside.
ToolResultAsStated ==
    tool.pc = "done" =>
        /\ Len(tool.results) = 1 /\ Len(tool.fetches) = 1
        /\ IF tool.file # <<>>
           THEN LET r == tool.results[1]
                    text == r.content[1].text
                    f == tool.file[1]
                IN  /\ "isError" \notin DOMAIN r
                    /\ Len(r.content) = 1
                    /\ Len(text) = 3
                    /\ DumpedKeys(text) = {"metadata", "nodes", "globalVars"}
                    /\ DumpedValue(text, "nodes") = f.nodes
                    /\ DumpedValue(text, "globalVars") = f.globalVars
                    /\ DOMAIN DumpedValue(text, "metadata") = DOMAIN f \ {"nodes", "globalVars"}
                    /\ \A k \in DOMAIN f \ {"nodes", "globalVars"} :
                           DumpedValue(text, "metadata")[k] = f[k]
           ELSE LET r == tool.results[1]
                IN  /\ "isError" \in DOMAIN r /\ r.isError
                    /\ Len(r.content) = 1
                    /\ r.content[1].text[1] = "Error fetching file: "
                    /\ r.content[1].text[2] \in ToolErrors

\* C13 as stated.  The tool fetches with getNode when a nodeId is given and
\* with getFile otherwise; on success the document has exactly the keys
\* metadata, nodes and globalVars, metadata holding every other field of the
\* design; on a failed fetch the result is a single error without a tree.
ToolFetchesByNodeIdGiven ==
    /\ tool.pc # "idle" =>
           tool.fetches[1].method = IF tool.nodeId # <<>> THEN "getNode" ELSE "getFile"
    /\ ToolResultAsStated

\* C13 as amended.  The same, with getNode when a nodeId is given and is not
\* the empty string, and getFile otherwise.
ToolFetchesByNodeIdNonEmpty ==
    /\ tool.pc # "idle" =>
           /\ tool.fetches[1].method =
                  IF tool.nodeId # <<>> /\ tool.nodeId # <<"">> THEN "getNode" ELSE "getFile"
           /\ tool.fetches[1].method = "getNode" =>
                  tool.fetches[1].args = <<"fileKey", tool.nodeId[1], tool.depth>>
           /\ tool.fetches[1].method = "getFile" =>
                  tool.fetches[1].args = <<"fileKey", tool.depth>>
    /\ ToolResultAsStated

\* A call with a nodeId has fetched a design with a thumbnail by getNode and
\* returned its document.
ToolReturnedNodeDocument ==
    /\ tool.pc = "done"
    /\ tool.nodeId = <<"1:2">>
    /\ tool.fetches[1].method = "getNode"
    /\ tool.file # <<>>
    /\ "thumbnailUrl" \in DOMAIN tool.file[1]
    /\ Len(tool.file[1].nodes) = 2

---------------------------------------------------------------------------
\* C14 as stated.  A node that is not itself classified overlay is 'dimmed'
\* whenever one of its emitted descendants, at any depth and at any position
\* among its siblings, is classified overlay.
OverlayDescendantDimsAncestors ==
    hierarchy # <<>> =>
        \A s \in EmittedIds, t \in EmittedIds :
            (s \in Ancestors(D, t) /\ Classified(D, t) /\ ~Classified(D, s))
                => StateOf(s) = "dimmed"

\* C14 as amended.  A node that is not itself classified overlay is 'dimmed'
\* whenever one of its own visible children, at any position, is classified
\* overlay; an overlay further down does not reach it: with no overlay among
\* its children and none declared before it or before an ancestor, the node
\* is 'visible'.
OverlayChildDimsParent ==
    hierarchy # <<>> =>
        \A s \in EmittedIds :
            ~Classified(D, s) =>
                /\ (\E c \in EmittedIds : c # 1 /\ D.parent[c] = s /\ Classified(D, c))
                       => StateOf(s) = "dimmed"
                /\ (~OverlayAmongChildren(D, s) /\ ~OverlayDeclaredBefore(D, s))
                       => StateOf(s) = "visible"

\* A node has been emitted 'dimmed' for an overlay that is the last of its
\* children, and another 'visible' above an overlay grandchild.
OverlayLastChildAndGrandchild ==
    /\ hierarchy # <<>>
    /\ \E s \in EmittedIds, c \in EmittedIds, e \in EmittedIds :
           /\ c # 1 /\ e # 1 /\ c # e
           /\ D.parent[c] = s /\ D.parent[e] = s /\ e < c
           /\ StateOf(c) = "dimmer" /\ StateOf(e) = "visible"
           /\ StateOf(s) = "dimmed"
    /\ \E s \in EmittedIds, t \in EmittedIds :
           /\ t # 1 /\ D.parent[t] # 1 /\ D.parent[D.parent[t]] = s
           /\ StateOf(t) = "dimmer"
           /\ StateOf(s) = "visible"

---------------------------------------------------------------------------
\* The vision requests sent before position j of the log, and those settled.
VisionIssuedBefore(j) ==
    { i \in 1..(j - 1) : calls[i].ev = "issue" /\ calls[i].op = "vision" }

VisionSettledBefore(j) ==
    { i \in 1..(j - 1) : calls[i].ev = "settle" /\ calls[i].op = "vision" }

\* C15.  At most one vision request is in flight at any time: a request is
\* issued only after every earlier one has settled, by success or by failure,
\* and a node's own request is issued only after the requests of all its
\* visible descendants have settled.
OneVisionRequestInFlight ==
    /\ Cardinality(VisionIssuedBefore(Len(calls) + 1))
         - Cardinality(VisionSettledBefore(Len(calls) + 1))
           = IF pc = "walking" THEN 1 ELSE 0
    /\ \A j \in 1..Len(calls) :
           (calls[j].ev = "issue" /\ calls[j].op = "vision") =>
               /\ Cardinality(VisionIssuedBefore(j)) = Cardinality(VisionSettledBefore(j))
               /\ \A i \in VisionIssuedBefore(j) :
                      \E h \in VisionSettledBefore(j) : i < h /\ calls[h].node = calls[i].node
               /\ \A t \in 1..D.n :
                      (/\ calls[j].node \in Ancestors(D, t)
                       /\ ResolvedUrl(t)
                       /\ ~HiddenBelowTop(D, t))
                          => \E h \in VisionSettledBefore(j) : calls[h].node = t

\* The request of a node is in flight after the request of its grandchild
\* failed.
ParentRequestAfterDescendants ==
    /\ pc = "walking"
    /\ \E k \in 1..D.n, c \in 1..D.n, g \in 1..D.n :
           /\ D.parent[c] = k /\ D.parent[g] = c
           /\ calls[Len(calls)] = Issue("vision", k)
           /\ \E h \in 1..Len(calls) : calls[h] = Settle("vision", g, "notOk")

---------------------------------------------------------------------------
\* The place of an external call in the handler: node fetch, image-URL
\* resolution, annotation.
CallRank(op) == CASE op = "getNode" -> 1 [] op = "images" -> 2 [] op = "vision" -> 3

IssuesOf(op) == { j \in 1..Len(calls) : calls[j].ev = "issue" /\ calls[j].op = op }

\* C16.  External calls happen only in the order node fetch, one image-URL
\* resolution, annotation requests.  None is issued when the URL yields no
\* file key or no node id (400) or the OpenAI key is not set (500); after a
\* response without the node (404) only the node fetch was issued.
ExternalCallsInOrder ==
    /\ \A i \in 1..Len(calls), j \in 1..Len(calls) :
           i < j => CallRank(calls[i].op) <= CallRank(calls[j].op)
    /\ Cardinality(IssuesOf("getNode")) <= 1
    /\ Cardinality(IssuesOf("images")) <= 1
    /\ IssuesOf("images") # {} => Settle("getNode", 0, "ok") \in { calls[j] : j \in 1..Len(calls) }
    /\ IssuesOf("vision") # {} => Settle("images", 0, "ok") \in { calls[j] : j \in 1..Len(calls) }
    /\ (pc # "idle" /\ request.url \in {"noFileKey", "noNodeId"}) =>
           /\ calls = <<>>
           /\ responses = <<ErrorResponse(400, "Invalid Figma URL")>>
    /\ (pc # "idle" /\ request.url = "valid" /\ ~request.keySet) =>
           /\ calls = <<>>
           /\ Len(responses) = 1 /\ responses[1].status = 500
    /\ Settle("getNode", 0, "noNode") \in { calls[j] : j \in 1..Len(calls) } =>
           /\ calls = <<Issue("getNode", 0), Settle("getNode", 0, "noNode")>>
           /\ responses = <<ErrorResponse(404, "Node not found in Figma response")>>

\* A request has been answered with its tree after the node fetch, the
\* image-URL resolution and two annotation requests.
AllThreeKindsOfCallMade ==
    /\ pc = "done"
    /\ Len(responses) = 1 /\ responses[1].status = 200
    /\ Cardinality(IssuesOf("getNode")) = 1
    /\ Cardinality(IssuesOf("images")) = 1
    /\ Cardinality(IssuesOf("vision")) = 2

---------------------------------------------------------------------------
\* The HTTP side of FigmaMcpServer: startHttpServer (server.ts 81-320) with
\* the /sse and /messages handlers, and stopHttpServer (322-333).

MaxSessions == 2

MaxEvents == 5

MaxStops == 2

\* The ids SSEServerTransport gives its sessions, in the order handed out.
SessionId(k) == <<"session", k>>

\* Keys every object literal inherits from Object.prototype.
PrototypeKeys == {<<"constructor">>, <<"toString">>}

\* What the sessionId query parameter of a /messages post may be.
PostedIds == { SessionId(k) : k \in 1..MaxSessions } \cup {<<"unknown">>} \cup PrototypeKeys

\* this.transports[sessionId] on the object literal of line 23: an own entry,
\* an inherited member of Object.prototype, or undefined.
Lookup(map, sessionId) ==
    IF sessionId \in DOMAIN map THEN [kind |-> "transport", value |-> map[sessionId]]
    ELSE IF sessionId \in PrototypeKeys THEN [kind |-> "inherited", value |-> sessionId]
    ELSE [kind |-> "undefined", value |-> <<>>]

Truthy(found) == found.kind # "undefined"

\* this.transports[key] = value.
SetKey(map, key, value) ==
    [k \in DOMAIN map \cup {key} |-> IF k = key THEN value ELSE map[k]]

\* delete this.transports[key].
DeleteKey(map, key) == [k \in DOMAIN map \ {key} |-> map[k]]

\* Object.values(map): the values in the order the keys were added, which is
\* the order the session ids were handed out in.
ObjectValues(map) ==
    LET ids == SelectSeq([k \in 1..MaxSessions |-> SessionId(k)], LAMBDA id : id \in DOMAIN map)
    IN  [j \in 1..Len(ids) |-> map[ids[j]]]

Logged(e) == events' = Append(events, e)

\* Lines 81-319: the handlers are registered and the server listens.
StartHttpServer ==
    /\ httpServer' = <<"server">>
    /\ UNCHANGED <<contextVars, tool, transports, sessions, stops, events>>

\* Lines 85-93: GET /sse.
SseConnect ==
    /\ httpServer # <<>>
    /\ sessions.next <= MaxSessions
    /\ Len(events) < MaxEvents
    /\ LET id == SessionId(sessions.next)
       IN  /\ transports' = SetKey(transports, id, [sessionId |-> id])
           /\ sessions' = [next |-> sessions.next + 1, open |-> sessions.open \cup {id}]
           /\ Logged([ev |-> "accepted", session |-> id])
    /\ UNCHANGED <<contextVars, tool, httpServer, stops>>

\* Line 91: the 'close' listener of the connection's response.
SseClose(id) ==
    /\ id \in sessions.open
    /\ Len(events) < MaxEvents
    /\ transports' = DeleteKey(transports, id)
    /\ sessions' = [sessions EXCEPT !.open = @ \ {id}]
    /\ Logged([ev |-> "closed", session |-> id])
    /\ UNCHANGED <<contextVars, tool, httpServer, stops>>

\* Lines 95-102: POST /messages.  With an inherited member passing the test
\* of line 97, handlePostMessage is undefined and calling it throws in the
\* async handler: no response is written by the handler, and what becomes of
\* the rejection (an unhandled rejection, or the framework's 500) is up to
\* the Express version.
MessagesPost(sessionId, fate) ==
    /\ httpServer # <<>>
    /\ Len(events) < MaxEvents
    /\ LET found == Lookup(transports, sessionId)
       IN  IF ~Truthy(found)
           THEN Logged([ev |-> "post", session |-> sessionId, outcome |-> "400", to |-> <<>>])
           ELSE IF found.kind = "transport"
           THEN Logged([ev |-> "post", session |-> sessionId, outcome |-> "forwarded",
                        to |-> <<found.value.sessionId>>])
           ELSE Logged([ev |-> "post", session |-> sessionId, outcome |-> fate, to |-> <<>>])
    /\ UNCHANGED <<contextVars, tool, transports, httpServer, sessions, stops>>

PostFates == {"unhandledRejection", "500"}

\* Line 323, and the call of close on line 325.  stops holds, for each call
\* that has not settled, where it stands.
StopHttpServer ==
    /\ Len(events) < MaxEvents
    /\ IF httpServer = <<>>
       THEN /\ Logged([ev |-> "stopRejected", why |-> "HTTP server is not running"])
            /\ UNCHANGED stops
       ELSE /\ Len(stops) < MaxStops
            /\ stops' = Append(stops, "closing")
            /\ UNCHANGED events
    /\ UNCHANGED <<contextVars, tool, transports, httpServer, sessions>>

RemoveAt(seq, j) == SubSeq(seq, 1, j - 1) \o SubSeq(seq, j + 1, Len(seq))

\* Lines 328-330: close() is called on every transport of the map.
CloseRequests(map) ==
    LET ts == ObjectValues(map)
    IN  [j \in 1..Len(ts) |-> [ev |-> "closeRequested", session |-> ts[j].sessionId]]

\* close() called on the transports before the error is looked at.
CloseCallback_closeFirst(j, failed) ==
    /\ j \in 1..Len(stops) /\ stops[j] = "closing"
    /\ Len(events) < MaxEvents
    /\ IF failed
       THEN /\ events' = events \o CloseRequests(transports)
                           \o <<[ev |-> "stopRejected", why |-> "close error"]>>
            /\ stops' = RemoveAt(stops, j)
            /\ UNCHANGED httpServer
       ELSE /\ httpServer' = <<>>
            /\ events' = events \o <<[ev |-> "serverClosed", registered |-> DOMAIN transports]>>
                           \o CloseRequests(transports)
            /\ stops' = [stops EXCEPT ![j] = "closingTransports"]
    /\ UNCHANGED <<contextVars, tool, transports, sessions>>

\* Lines 325-330: the callback of httpServer.close.
CloseCallback(j, failed) ==
    /\ j \in 1..Len(stops) /\ stops[j] = "closing"
    /\ Len(events) < MaxEvents
    /\ IF failed
       THEN /\ Logged([ev |-> "stopRejected", why |-> "close error"])
            /\ stops' = RemoveAt(stops, j)
            /\ UNCHANGED httpServer
       ELSE /\ httpServer' = <<>>
            /\ events' = events \o <<[ev |-> "serverClosed", registered |-> DOMAIN transports]>>
                           \o CloseRequests(transports)
            /\ stops' = [stops EXCEPT ![j] = "closingTransports"]
    /\ UNCHANGED <<contextVars, tool, transports, sessions>>

\* Line 330: Promise.all(...).then(resolve).  When a transport's close
\* rejects, nothing resolves or rejects the call.
TransportClosesSettle(j, allClosed) ==
    /\ j \in 1..Len(stops) /\ stops[j] = "closingTransports"
    /\ Len(events) < MaxEvents
    /\ IF allClosed
       THEN /\ Logged([ev |-> "stopResolved"])
            /\ stops' = RemoveAt(stops, j)
       ELSE /\ stops' = [stops EXCEPT ![j] = "neverSettles"]
            /\ UNCHANGED events
    /\ UNCHANGED <<contextVars, tool, transports, httpServer, sessions>>

NextServer ==
    \/ StartHttpServer
    \/ SseConnect
    \/ \E id \in sessions.open : SseClose(id)
    \/ \E sessionId \in PostedIds, fate \in PostFates : MessagesPost(sessionId, fate)
    \/ StopHttpServer
    \/ \E j \in 1..MaxStops, failed \in BOOLEAN : CloseCallback(j, failed)
    \/ \E j \in 1..MaxStops, allClosed \in BOOLEAN : TransportClosesSettle(j, allClosed)

SpecServer == Init /\ [][NextServer]_vars

---------------------------------------------------------------------------
\* The sessions whose /sse connection was accepted and had not closed when
\* event j was logged.
OpenBefore(j) ==
    { e.session : e \in { events[i] : i \in { h \in 1..(j - 1) : events[h].ev = "accepted" } } }
    \ { e.session : e \in { events[i] : i \in { h \in 1..(j - 1) : events[h].ev = "closed" } } }

PostEvents == { j \in 1..Len(events) : events[j].ev = "post" }

\* C17.  A session id is registered in transports from the moment its /sse
\* connection is accepted until the connection closes; a /messages post is
\* forwarded only if its sessionId is registered at that moment, and then to
\* the transport of that session; a post for an unknown or closed session is
\* answered 400 and forwarded to no transport.
PostsRoutedBySession ==
    /\ DOMAIN transports = sessions.open
    /\ DOMAIN transports = OpenBefore(Len(events) + 1)
    /\ \A id \in DOMAIN transports : transports[id].sessionId = id
    /\ \A j \in PostEvents :
           IF events[j].session \in OpenBefore(j)
           THEN events[j].outcome = "forwarded" /\ events[j].to = <<events[j].session>>
           ELSE events[j].outcome = "400" /\ events[j].to = <<>>

\* What the code does keep: the same for every sessionId that is not the
\* name of a member of Object.prototype; a post with such a name is forwarded
\* to no transport, and is not answered 400.
PostsRoutedBySessionOwnKeys ==
    /\ DOMAIN transports = sessions.open
    /\ DOMAIN transports = OpenBefore(Len(events) + 1)
    /\ \A id \in DOMAIN transports : transports[id].sessionId = id
    /\ \A j \in PostEvents :
           IF events[j].session \in OpenBefore(j)
           THEN events[j].outcome = "forwarded" /\ events[j].to = <<events[j].session>>
           ELSE IF events[j].session \in PrototypeKeys
           THEN events[j].outcome \in PostFates /\ events[j].to = <<>>
           ELSE events[j].outcome = "400" /\ events[j].to = <<>>

---------------------------------------------------------------------------
\* What a step adds to the log.
NewEvents == SubSeq(events', Len(events) + 1, Len(events'))

NotRunning == [ev |-> "stopRejected", why |-> "HTTP server is not running"]

CloseError == [ev |-> "stopRejected", why |-> "close error"]

\* The log around the calls of stopHttpServer: the server is closed with the
\* transports registered at that moment, close is requested on each of them
\* right then, a call resolves only after that, and close is requested on a
\* transport at no other time.
StopLogOrdered ==
    /\ \A i \in 1..Len(events) :
           events[i].ev = "serverClosed" =>
               /\ events[i].registered = OpenBefore(i)
               /\ i + Cardinality(events[i].registered) <= Len(events)
               /\ { events[h].session : h \in (i + 1)..(i + Cardinality(events[i].registered)) }
                      = events[i].registered
               /\ \A h \in (i + 1)..(i + Cardinality(events[i].registered)) :
                      events[h].ev = "closeRequested"
    /\ \A j \in 1..Len(events) :
           events[j].ev = "stopResolved" =>
               \E i \in 1..(j - 1) :
                   /\ events[i].ev = "serverClosed"
                   /\ i + Cardinality(events[i].registered) < j
    /\ \A h \in 1..Len(events) :
           events[h].ev = "closeRequested" =>
               \E i \in 1..(h - 1) :
                   /\ events[i].ev = "serverClosed"
                   /\ h - i <= Cardinality(events[i].registered)

\* What one step of stopHttpServer does to the server.
StopStep ==
    /\ (NewEvents # <<>> /\ NewEvents[1] = NotRunning) =>
           /\ httpServer = <<>>
           /\ NewEvents = <<NotRunning>>
           /\ UNCHANGED <<transports, httpServer, sessions, stops>>
    /\ httpServer = <<>> => Len(stops') <= Len(stops)
    /\ (httpServer = <<>> /\ Len(stops') < Len(stops)) =>
           \/ NewEvents \in {<<CloseError>>, <<[ev |-> "stopResolved"]>>}
    /\ (NewEvents # <<>> /\ NewEvents[1].ev = "serverClosed") =>
           /\ httpServer' = <<>>
           /\ UNCHANGED <<transports, sessions>>
    /\ (NewEvents # <<>> /\ \E h \in 1..Len(NewEvents) : NewEvents[h] = CloseError) =>
           /\ NewEvents = <<CloseError>>
           /\ UNCHANGED <<httpServer, transports, sessions>>

====
